---------------------------- MODULE Spec2Model ----------------------------
(***************************************************************************)
(* postprocess.py: the header rewriter of SquireCore.  main() reads the    *)
(* generated header, rewrites it line by line and writes it back in place. *)
(*                                                                         *)
(* A character is its code point, a number of 0..1114111; a text is a      *)
(* sequence of characters.  A byte is a number of 0..255; the content of   *)
(* the file is a sequence of bytes.  Text(<<"a", "b">>) is the text of the *)
(* ASCII characters written as one-character strings.                      *)
(* The file's content, the text read, the text being built and the         *)
(* position of main() are the state.  hist records the content the file    *)
(* had at the start of every run of main(), oldest first.                  *)
(***************************************************************************)
EXTENDS Naturals, Sequences, FiniteSets

VARIABLES file, pc, data, lines, idx, ret, hist

vars == <<file, pc, data, lines, idx, ret, hist>>

(***************************************************************************)
(* Bounds of the model.                                                    *)
(***************************************************************************)
MaxLines == 2
MaxRuns == 3

(***************************************************************************)
(* Characters.                                                             *)
(***************************************************************************)
\* the ASCII characters from the space (32) to the underscore (95)
AsciiLow ==
  <<" ","!","\"","#","$","%","&","'","(",")","*","+",",","-",".","/",
    "0","1","2","3","4","5","6","7","8","9",":",";","<","=",">","?",
    "@","A","B","C","D","E","F","G","H","I","J","K","L","M","N","O",
    "P","Q","R","S","T","U","V","W","X","Y","Z","[","\\","]","^","_">>

\* the ASCII characters from a (97) to the tilde (126)
AsciiHigh ==
  <<"a","b","c","d","e","f","g","h","i","j","k","l","m","n","o","p",
    "q","r","s","t","u","v","w","x","y","z","{","|","}","~">>

\* the code point of an ASCII character
Ord(c) ==
  IF c = "\t" THEN 9
  ELSE IF c = "\n" THEN 10
  ELSE IF c = "\f" THEN 12
  ELSE IF c = "\r" THEN 13
  ELSE IF \E i \in 1..Len(AsciiHigh) : AsciiHigh[i] = c
  THEN 96 + CHOOSE i \in 1..Len(AsciiHigh) : AsciiHigh[i] = c
  ELSE 31 + CHOOSE i \in 1..Len(AsciiLow) : AsciiLow[i] = c

\* the text of the ASCII characters s
Text(s) == SubSeq([i \in 1..Len(s) |-> Ord(s[i])], 1, Len(s))

NL == 10

CR == 13

\* the letters outside ASCII that [a-zA-Z] takes under re.I:
\* U+0130 and U+0131 (dotted I, dotless i), U+017F (long s), U+212A (Kelvin)
DOTTED_I == 304

DOTLESS_I == 305

LONG_S == 383

KELVIN == 8490

\* A-Z and a-z
UpperCase == 65..90

LowerCase == 97..122

\* [a-zA-Z] under re.I
IsAlpha(c) ==
  \/ c \in UpperCase
  \/ c \in LowerCase
  \/ c \in {DOTTED_I, DOTLESS_I, LONG_S, KELVIN}

\* \s of a str pattern: the characters str.isspace() takes, U+0009..U+000D,
\* U+001C..U+001F, U+0020, U+0085, U+00A0, U+1680, U+2000..U+200A, U+2028,
\* U+2029, U+202F, U+205F, U+3000
IsSpace(c) ==
  \/ c \in 9..13
  \/ c \in 28..32
  \/ c \in {133, 160, 5760, 8232, 8233, 8239, 8287, 12288}
  \/ c \in 8192..8202

\* re.I: characters are compared after case folding; the long s goes with
\* s, the dotted I and the dotless i with i, the Kelvin sign with k
Fold(c) ==
  IF c \in UpperCase THEN c + 32
  ELSE IF c = LONG_S THEN Ord("s")
  ELSE IF c \in {DOTTED_I, DOTLESS_I} THEN Ord("i")
  ELSE IF c = KELVIN THEN Ord("k")
  ELSE c

(***************************************************************************)
(* The literal pieces of the two patterns and of the emitted text.         *)
(***************************************************************************)
USING == Text(<<"u","s","i","n","g"," ">>)

SC == Text(<<"s","c","_">>)

ID == Text(<<"I","d">>)

EQ_TYPEID == Text(<<" ","="," ","s","c","_","T","y","p","e","I","d","<">>)

CLOSE == Text(<<">",";">>)

RATIONAL_DECL == Text(<<"u","s","i","n","g"," ","s","c","_","r","6","4"," ","="," ","s","c","_","R","a","t","i","o","n","a","l","3","2",";">>)

EQ_STRUCT == Text(<<" ","="," ","s","t","r","u","c","t"," ","_","_">>)

UUID_BODY == Text(<<"{"," ","s","c","_","U","u","i","d"," ","_","0",";"," ","}",";">>)

BLOCK_LINES ==
  << <<>>,
     Text(<<"/","/","/"," ","T","h","i","s"," ","i","s"," ","g","h","a","s","t","l","y"," ","w","r","a","p","p","e","r"," ","f","o","r"," ","r","a","t","i","o","3","2">>),
     Text(<<"t","y","p","e","d","e","f"," ","s","t","r","u","c","t"," ","r","a","t","i","o","3","2"," ","{">>),
     Text(<<" "," "," "," ","i","n","t"," ","_","0",";">>),
     Text(<<" "," "," "," ","i","n","t"," ","_","1",";">>),
     Text(<<"}"," ","r","a","t","i","o","3","2",";">>),
     <<>>,
     Text(<<"/","/","/"," ","T","u","r","n","s"," ","a"," ","r","a","t","i","o","n","a","l","3","2"," ","o","r"," ","r","a","t","i","o","3","2"," ","i","n","t","o"," ","a"," ","f","l","o","a","t","i","n","g"," ","p","o","i","n","t"," ","n","u","m","b","e","r">>),
     Text(<<"f","l","o","a","t"," ","r","a","t","i","o","3","2","T","o","F","l","o","a","t","(","r","a","t","i","o","3","2"," ","r",")",";">>),
     <<>>,
     Text(<<"u","s","i","n","g"," ","s","c","_","R","a","t","i","o","n","a","l","3","2"," ","="," ","r","a","t","i","o","3","2",";">>) >>

(***************************************************************************)
(* The file holds bytes: open() without an encoding reads and writes the   *)
(* text in the locale's encoding, UTF-8, with strict error handling.       *)
(***************************************************************************)
\* the bytes of one character
Utf8(c) ==
  IF c < 128 THEN <<c>>
  ELSE IF c < 2048 THEN <<192 + (c \div 64), 128 + (c % 64)>>
  ELSE IF c < 65536
  THEN <<224 + (c \div 4096), 128 + ((c \div 64) % 64), 128 + (c % 64)>>
  ELSE <<240 + (c \div 262144), 128 + ((c \div 4096) % 64),
         128 + ((c \div 64) % 64), 128 + (c % 64)>>

\* the characters U+D800..U+DFFF, which have no encoding
IsSurrogate(c) == c \in 55296..57343

\* whether f.write(t) encodes t; it raises UnicodeEncodeError when not
Encodable(t) == ~\E i \in 1..Len(t) : IsSurrogate(t[i])

\* the bytes f.write(t) sends to the file
RECURSIVE Encode(_)
Encode(t) ==
  IF t = <<>> THEN <<>>
  ELSE IF Len(t) = 1 THEN Utf8(t[1])
  ELSE LET h == Len(t) \div 2
       IN  Encode(SubSeq(t, 1, h)) \o Encode(SubSeq(t, h + 1, Len(t)))

\* the bytes 0x80..0xBF, which continue a character
IsContinuation(b) == b \in 128..191

\* the positions of f where a character starts, in order
CharStarts(f) ==
  SelectSeq([i \in 1..Len(f) |-> i], LAMBDA i : ~IsContinuation(f[i]))

\* whether the bytes bs, a first byte and the continuation bytes after it,
\* encode a character: the shortest encoding of a character that is no
\* surrogate and is at most U+10FFFF
ValidCode(bs) ==
  CASE Len(bs) = 1 -> bs[1] < 128
    [] Len(bs) = 2 -> bs[1] \in 194..223
    [] Len(bs) = 3 -> \/ bs[1] = 224 /\ bs[2] >= 160
                      \/ bs[1] \in 225..236
                      \/ bs[1] = 237 /\ bs[2] <= 159
                      \/ bs[1] \in 238..239
    [] Len(bs) = 4 -> \/ bs[1] = 240 /\ bs[2] >= 144
                      \/ bs[1] \in 241..243
                      \/ bs[1] = 244 /\ bs[2] <= 143
    [] OTHER -> FALSE

\* the character the bytes bs encode
CodePoint(bs) ==
  CASE Len(bs) = 1 -> bs[1]
    [] Len(bs) = 2 -> ((bs[1] - 192) * 64) + (bs[2] - 128)
    [] Len(bs) = 3 -> ((bs[1] - 224) * 4096) + ((bs[2] - 128) * 64)
                        + (bs[3] - 128)
    [] Len(bs) = 4 -> ((bs[1] - 240) * 262144) + ((bs[2] - 128) * 4096)
                        + ((bs[3] - 128) * 64) + (bs[4] - 128)

\* whether f.read() raises UnicodeDecodeError: f starts with a continuation
\* byte or holds a group of bytes that encodes no character
Malformed(f) ==
  LET st == CharStarts(f)
  IN  \/ (f # <<>> /\ IsContinuation(f[1]))
      \/ \E k \in 1..Len(st) :
           ~ValidCode(SubSeq(f, st[k],
                             IF k < Len(st) THEN st[k + 1] - 1 ELSE Len(f)))

\* whether f decodes
WellFormed(f) == ~Malformed(f)

\* the characters the bytes f encode
Utf8Decode(f) ==
  LET st == CharStarts(f)
  IN  [k \in 1..Len(st) |->
         CodePoint(SubSeq(f, st[k],
                          IF k < Len(st) THEN st[k + 1] - 1 ELSE Len(f)))]

(***************************************************************************)
(* str.split("\n") and the concatenation of newline-terminated lines.      *)
(***************************************************************************)
\* the positions of the newlines of t, in order
NlPositions(t) == SelectSeq([i \in 1..Len(t) |-> i], LAMBDA i : t[i] = NL)

Split(t) ==
  LET nl == NlPositions(t)
  IN  [k \in 1..(Len(nl) + 1) |->
         SubSeq(t, IF k = 1 THEN 1 ELSE nl[k - 1] + 1,
                   IF k > Len(nl) THEN Len(t) ELSE nl[k] - 1)]

\* open(HEADER, "r"): the text mode reads "\r\n" and a lone "\r" as "\n"
Decode(t) ==
  LET keep == SelectSeq([i \in 1..Len(t) |-> i],
                        LAMBDA i : ~(t[i] = NL /\ i > 1 /\ t[i - 1] = CR))
  IN  [k \in 1..Len(keep) |-> IF t[keep[k]] = CR THEN NL ELSE t[keep[k]]]

\* f.read() of a file that holds the bytes f
ReadText(f) == Decode(Utf8Decode(f))

RECURSIVE Terminated(_)
Terminated(ls) ==
  IF ls = <<>> THEN <<>> ELSE Head(ls) \o <<NL>> \o Terminated(Tail(ls))

\* the triple-quoted literal of the Rational branch, up to the "+ line"
BLOCK == Terminated(BLOCK_LINES)

(***************************************************************************)
(* re.match: the pattern is tried at the start of the line and may end     *)
(* anywhere in it.                                                         *)
(***************************************************************************)
\* the first position of s that holds no whitespace: where a leading \s* ends
WsEnd(s) ==
  IF \E i \in 1..Len(s) : ~IsSpace(s[i])
  THEN CHOOSE i \in 1..Len(s) :
         ~IsSpace(s[i]) /\ \A j \in 1..(i - 1) : IsSpace(s[j])
  ELSE Len(s) + 1

\* the literal lit, compared under re.I, at position p of s
MatchAt(s, p, lit) ==
  /\ p + Len(lit) - 1 <= Len(s)
  /\ \A j \in 1..Len(lit) : Fold(s[p + j - 1]) = Fold(lit[j])

RATIONAL_LINE_RE(line) == MatchAt(line, WsEnd(line), RATIONAL_DECL)

\* where the "Id" of the first group may start: after `using sc_` and one or
\* more letters, and followed by `Id = sc_TypeId<sc_`
PolyIds(line) ==
  LET p == WsEnd(line)
      b == p + Len(USING) + Len(SC)
  IN  IF MatchAt(line, p, USING \o SC)
      THEN {k \in (b + 1)..Len(line) :
              /\ \A i \in b..(k - 1) : IsAlpha(line[i])
              /\ MatchAt(line, k, ID \o EQ_TYPEID \o SC)}
      ELSE {}

\* where the `>;` may start once "Id" starts at k: after one or more letters
PolyCloses(line, k) ==
  LET m == k + Len(ID) + Len(EQ_TYPEID) + Len(SC)
  IN  {e \in (m + 1)..Len(line) :
         /\ \A i \in m..(e - 1) : IsAlpha(line[i])
         /\ MatchAt(line, e, CLOSE)}

ID_EQ == ID \o Text(<<" ","="," ">>)

SEMICOLON == Ord(";")

\* a variant: the pattern `\s*using (sc_[a-zA-Z]+Id) = .*;`, which takes any
\* right-hand side
PolyMatchesAnyRhs(line) ==
  LET p == WsEnd(line)
      b == p + Len(USING) + Len(SC)
  IN  IF MatchAt(line, p, USING \o SC)
      THEN {ke \in ((b + 1)..Len(line)) \X (1..Len(line)) :
              /\ \A i \in b..(ke[1] - 1) : IsAlpha(line[i])
              /\ MatchAt(line, ke[1], ID_EQ)
              /\ ke[2] >= ke[1] + Len(ID) + 3
              /\ line[ke[2]] = SEMICOLON}
      ELSE {}

\* the ways POLY_MORPHISM_RE matches: <<k, e>> with "Id" at k and ">;" at e
PolyMatches(line) ==
  UNION {{<<k, e>> : e \in PolyCloses(line, k)} : k \in PolyIds(line)}

POLY_MORPHISM_RE(line) == PolyMatches(line) # {}

\* a variant: the second group, the wrapped type, taken for the first
Group2(line) ==
  LET ke == CHOOSE x \in PolyMatches(line) :
              \A y \in PolyMatches(line) : y[1] <= x[1]
  IN  SubSeq(line, ke[1] + Len(ID) + Len(EQ_TYPEID), ke[2] - 1)

\* mtchs.groups()[0]: the greedy match is the one with the largest k
Group1(line) ==
  LET ke == CHOOSE x \in PolyMatches(line) :
              \A y \in PolyMatches(line) : y[1] <= x[1]
  IN  SubSeq(line, WsEnd(line) + Len(USING), ke[1] + Len(ID) - 1)

(***************************************************************************)
(* The loop body: what one line adds to ret.                               *)
(***************************************************************************)
\* a variant: the block written after the line instead of before it
RationalOutputAfter(line) == line \o <<NL>> \o BLOCK

\* a variant: the block is not written again when the text read holds it
RationalOutputGuarded(line) ==
  IF \E i \in 1..Len(lines) :
       /\ i + Len(BLOCK_LINES) - 1 <= Len(lines)
       /\ SubSeq(lines, i, i + Len(BLOCK_LINES) - 1) = BLOCK_LINES
  THEN line \o <<NL>>
  ELSE BLOCK \o line \o <<NL>>

RationalOutput(line) == BLOCK \o line \o <<NL>>

TypeIdOutput(type) == USING \o type \o EQ_STRUCT \o type \o UUID_BODY

\* a variant: the verbatim branch written as line.lstrip()
LineOutputStripped(line) ==
  IF RATIONAL_LINE_RE(line)
  THEN RationalOutput(line)
  ELSE (IF POLY_MORPHISM_RE(line)
        THEN TypeIdOutput(Group1(line))
        ELSE SubSeq(line, WsEnd(line), Len(line)))
       \o <<NL>>

LineOutput(line) ==
  IF RATIONAL_LINE_RE(line)
  THEN RationalOutput(line)
  ELSE (IF POLY_MORPHISM_RE(line) THEN TypeIdOutput(Group1(line)) ELSE line)
       \o <<NL>>

(***************************************************************************)
(* The texts main() is run on: one line of LinePool, or up to MaxLines     *)
(* lines of MixPool joined by newlines (an empty last line is a text that  *)
(* ends with a newline).                                                   *)
(***************************************************************************)
ToUpper(c) == IF c \in LowerCase THEN c - 32 ELSE c

UpperOf(s) == [i \in 1..Len(s) |-> ToUpper(s[i])]

Admin == Text(<<"A","d","m","i","n">>)

User == Text(<<"U","s","e","r">>)

Widget == Text(<<"W","i","d","g","e","t">>)

Names == {Admin, User, Widget, Text(<<"I","d">>), <<Ord("A"), KELVIN>>}

\* U+000B is the vertical tab, U+00A0 the no-break space
Blanks == {<<>>, Text(<<" ">>), Text(<<"\t">>), Text(<<" ", "\t">>), <<11>>, <<160>>}

\* characters of two, three and four bytes that no pattern takes: U+00E9,
\* U+20AC, U+FEFF (the byte order mark), U+1F600
E_ACUTE == 233

EURO == 8364

BOM == 65279

GRIN == 128512

OTHER_CHARS == <<E_ACUTE, EURO, GRIN>>

COMMENT == Text(<<" ","/","/"," ","x">>)

PLAIN == Text(<<" "," ","i","n","t"," ","x",";"," ">>)

\* the pieces of the two declarations as a header spells them
DECL_HEAD == Text(<<"u","s","i","n","g"," ","s","c","_">>)

DECL_TYPEID == Text(<<"I","d"," ","="," ","s","c","_","T","y","p","e","I","d","<","s","c","_">>)

DECL_CLOSE == Text(<<">",";">>)

DECL_STRUCT == Text(<<"I","d"," ","="," ","s","t","r","u","c","t"," ","_","_","s","c","_">>)

DECL_BODY == Text(<<"I","d","{"," ","s","c","_","U","u","i","d"," ","_","0",";"," ","}",";">>)

\* using sc_<Name>Id = sc_TypeId<sc_<Name2>>;
TypeIdDecl(n, n2) == DECL_HEAD \o n \o DECL_TYPEID \o n2 \o DECL_CLOSE

\* using sc_<Name>Id = struct __sc_<Name>Id{ sc_Uuid _0; };
StructDecl(n) == DECL_HEAD \o n \o DECL_STRUCT \o n \o DECL_BODY

MixPool ==
  { <<>>,
    PLAIN,
    RATIONAL_DECL,
    TypeIdDecl(Admin, Widget),
    StructDecl(User) }

LinePool ==
  MixPool \cup
  { Text(<<"\t">>) \o RATIONAL_DECL \o Text(<<" ">>),
    UpperOf(RATIONAL_DECL),
    RATIONAL_DECL \o COMMENT,
    Text(<<"x">>) \o RATIONAL_DECL,
    TypeIdDecl(Admin, Admin),
    Text(<<" ">>) \o TypeIdDecl(User, User) \o Text(<<"\t">>),
    TypeIdDecl(Text(<<"I","d">>), User),
    TypeIdDecl(Admin, Admin) \o COMMENT,
    UpperOf(TypeIdDecl(Admin, Admin)),
    TypeIdDecl(Text(<<"A","1">>), Admin),
    TypeIdDecl(<<>>, Admin),
    BLOCK_LINES[Len(BLOCK_LINES)],
    <<11>> \o RATIONAL_DECL,
    <<160>> \o TypeIdDecl(Admin, User),
    TypeIdDecl(<<Ord("A"), KELVIN>>, User),
    TypeIdDecl(Admin, <<LONG_S>>),
    <<Ord("u"), LONG_S>> \o SubSeq(RATIONAL_DECL, 3, Len(RATIONAL_DECL)),
    <<Ord("u"), Ord("s"), DOTLESS_I>>
      \o SubSeq(TypeIdDecl(User, User), 4, Len(TypeIdDecl(User, User))),
    <<BOM>> \o RATIONAL_DECL,
    PLAIN \o OTHER_CHARS,
    TypeIdDecl(<<Ord("A"), E_ACUTE>>, User) }

\* texts whose lines end with "\r\n" or "\r"
CrTexts ==
  { PLAIN \o <<CR, NL>> \o RATIONAL_DECL \o <<CR, NL>>,
    PLAIN \o <<CR>> \o TypeIdDecl(Admin, Widget) }

RECURSIVE Joined(_)
Joined(ls) ==
  IF Len(ls) = 1 THEN Head(ls) ELSE Head(ls) \o <<NL>> \o Joined(Tail(ls))

Inputs ==
  LinePool \cup CrTexts \cup {Joined(ls) : ls \in UNION {[1..n -> MixPool] : n \in 1..MaxLines}}

\* files that hold no text: a lone continuation byte, a byte no character
\* has, a character cut short, a surrogate, a character encoded too long
BadFiles ==
  { <<139>>,
    <<255>>,
    PLAIN \o <<226, 130>>,
    <<237, 160, 128>> \o PLAIN,
    <<192, 175>> }

(***************************************************************************)
(* main()                                                                  *)
(***************************************************************************)
Init ==
  /\ file \in {Encode(t) : t \in Inputs} \cup BadFiles
  /\ hist = <<file>>
  /\ pc = "start"
  /\ data = <<>>
  /\ lines = <<>>
  /\ idx = 1
  /\ ret = <<>>

\* f = open(HEADER, "r")
OpenRead ==
  /\ pc = "start"
  /\ pc' = "opened"
  /\ UNCHANGED <<file, data, lines, idx, ret, hist>>

\* open(HEADER, "r") raises
OpenReadFail ==
  /\ pc = "start"
  /\ pc' = "failed"
  /\ UNCHANGED <<file, data, lines, idx, ret, hist>>

\* data = f.read(); f.close()
Read ==
  /\ pc = "opened"
  /\ WellFormed(file)
  /\ data' = ReadText(file)
  /\ pc' = "read"
  /\ UNCHANGED <<file, lines, idx, ret, hist>>

\* f.read() raises: the bytes are no text, or the read fails
ReadFail ==
  /\ pc = "opened"
  /\ pc' = "failed"
  /\ UNCHANGED <<file, data, lines, idx, ret, hist>>

\* ret = ""; for line in data.split("\n"):
BeginLoop ==
  /\ pc = "read"
  /\ ret' = <<>>
  /\ lines' = Split(data)
  /\ idx' = 1
  /\ pc' = "loop"
  /\ UNCHANGED <<file, data, hist>>

\* one pass of the loop body
ProcessLine ==
  /\ pc = "loop"
  /\ idx <= Len(lines)
  /\ ret' = ret \o LineOutput(lines[idx])
  /\ idx' = idx + 1
  /\ UNCHANGED <<file, pc, data, lines, hist>>

\* print(...) of a branch that matched raises: ret holds what the branch
\* added before it and main() ends with the file as it was
PrintFail ==
  /\ pc = "loop"
  /\ idx <= Len(lines)
  /\ \/ /\ RATIONAL_LINE_RE(lines[idx])
        /\ ret' = ret \o RationalOutput(lines[idx])
     \/ /\ ~RATIONAL_LINE_RE(lines[idx])
        /\ POLY_MORPHISM_RE(lines[idx])
        /\ ret' = ret \o TypeIdOutput(Group1(lines[idx]))
  /\ pc' = "failed"
  /\ UNCHANGED <<file, data, lines, idx, hist>>

\* f = open(HEADER, "w"): the file is truncated
OpenWrite ==
  /\ pc = "loop"
  /\ idx > Len(lines)
  /\ file' = <<>>
  /\ pc' = "writing"
  /\ UNCHANGED <<data, lines, idx, ret, hist>>

\* open(HEADER, "w") raises
OpenWriteFail ==
  /\ pc = "loop"
  /\ idx > Len(lines)
  /\ pc' = "failed"
  /\ UNCHANGED <<file, data, lines, idx, ret, hist>>

\* f.write(ret); f.close()
Write ==
  /\ pc = "writing"
  /\ Encodable(ret)
  /\ file' = Encode(ret)
  /\ pc' = "done"
  /\ UNCHANGED <<data, lines, idx, ret, hist>>

\* the lengths a write that raises may have put on disk: any number of the
\* bytes b, from none to all of them (when it is the close that raises)
PartialLengths(b) == 0..Len(b)

\* what a write of the bytes b that raises may leave in the file
Prefixes(b) == {SubSeq(b, 1, n) : n \in PartialLengths(b)}

\* what f.write(t); f.close() may leave in the file when one of them raises:
\* nothing when t does not encode, else part of its bytes
Leftovers(t) == IF Encodable(t) THEN Prefixes(Encode(t)) ELSE {<<>>}

\* f.write(ret) or f.close() raises
WriteFail ==
  /\ pc = "writing"
  /\ \E b \in Leftovers(ret) : file' = b
  /\ pc' = "failed"
  /\ UNCHANGED <<data, lines, idx, ret, hist>>

\* the script is run again on the file it rewrote
Rerun ==
  /\ pc = "done"
  /\ Len(hist) < MaxRuns
  /\ hist' = Append(hist, file)
  /\ pc' = "start"
  /\ UNCHANGED <<file, data, lines, idx, ret>>

Next ==
  \/ OpenRead
  \/ OpenReadFail
  \/ Read
  \/ ReadFail
  \/ BeginLoop
  \/ ProcessLine
  \/ PrintFail
  \/ OpenWrite
  \/ OpenWriteFail
  \/ Write
  \/ WriteFail
  \/ Rerun

Spec == Init /\ [][Next]_vars

\* the bytes main() writes for a file that holds the bytes f
RECURSIVE Concat(_)
Concat(ls) ==
  IF ls = <<>> THEN <<>> ELSE LineOutput(Head(ls)) \o Concat(Tail(ls))

Transform(f) == Encode(Concat(Split(ReadText(f))))

TypeOK ==
  /\ pc \in {"start", "opened", "read", "loop", "writing", "done", "failed"}
  /\ idx \in 1..(Len(lines) + 1)
  /\ Len(hist) \in 1..MaxRuns

(***************************************************************************)
(* Properties of a completed run.  At pc = "done" lines is the list the    *)
(* run split its input into and file holds the bytes of the text it wrote. *)
(***************************************************************************)
\* the text the file holds
Written == Utf8Decode(file)

K == Len(BLOCK_LINES)

Fired(ls) == {j \in 1..Len(ls) : RATIONAL_LINE_RE(ls[j])}

\* where the output of input line i starts among the output lines: after the
\* lines before it and one block for each of them the Rational rule fired on
StartIn(fired, i) == i + K * Cardinality({j \in fired : j < i})

Start(i) == StartIn(Fired(lines), i)

FoldSeq(s) == [i \in 1..Len(s) |-> Fold(s[i])]

Padded(decl) == {lead \o decl \o trail : lead \in Blanks, trail \in Blanks}

IsTypeIdDecl(l) ==
  \E n \in Names, n2 \in Names : l \in Padded(TypeIdDecl(n, n2))

IsStructDecl(l) == \E n \in Names : l = StructDecl(n)

\* the trigger declaration in any letter case, alone on its line
IsRationalAnyCase(l) ==
  \E lead \in Blanks, trail \in Blanks :
    /\ Len(l) = Len(lead) + Len(RATIONAL_DECL) + Len(trail)
    /\ SubSeq(l, 1, Len(lead)) = lead
    /\ FoldSeq(SubSeq(l, Len(lead) + 1, Len(lead) + Len(RATIONAL_DECL)))
         = FoldSeq(RATIONAL_DECL)
    /\ SubSeq(l, Len(lead) + Len(RATIONAL_DECL) + 1, Len(l)) = trail

\* a complete trigger declaration followed by further text after its `;`
HasTrailingText(l) ==
  \E lead \in Blanks :
    \/ l = lead \o RATIONAL_DECL \o COMMENT
    \/ \E n \in Names, n2 \in Names : l = lead \o TypeIdDecl(n, n2) \o COMMENT

BlockCount(ls) ==
  Cardinality({i \in 1..Len(ls) :
                 i + K - 1 <= Len(ls) /\ SubSeq(ls, i, i + K - 1) = BLOCK_LINES})

\* C1: a line that matches neither trigger is written unchanged, at the
\* position its input position and the blocks inserted before it give it.
PassThrough ==
  pc = "done" =>
    LET out == Split(Written)
    IN  \A i \in 1..Len(lines) :
          (~RATIONAL_LINE_RE(lines[i]) /\ ~POLY_MORPHISM_RE(lines[i]))
            => (Start(i) <= Len(out) /\ out[Start(i)] = lines[i])

\* an indented line that matches neither trigger was written after a block
PassThroughReached ==
  /\ pc = "done"
  /\ \E i \in 2..Len(lines) :
       /\ lines[i] = PLAIN
       /\ RATIONAL_LINE_RE(lines[i - 1])
       /\ Split(Written)[Start(i)] = PLAIN

\* C2: a line `using sc_<Name>Id = sc_TypeId<sc_<Name2>>;`, blanks around it
\* or not, is written as `using sc_<Name>Id = struct __sc_<Name>Id{ sc_Uuid
\* _0; };` whatever Name2 is.
TypeIdReplaced ==
  pc = "done" =>
    LET out == Split(Written)
    IN  \A i \in 1..Len(lines) : \A n \in Names, n2 \in Names :
          lines[i] \in Padded(TypeIdDecl(n, n2))
            => (Start(i) <= Len(out) /\ out[Start(i)] = StructDecl(n))

\* a declaration whose two names differ was rewritten
TypeIdReplacedReached ==
  /\ pc = "done"
  /\ \E i \in 1..Len(lines) :
       /\ lines[i] = TypeIdDecl(Admin, Widget)
       /\ Split(Written)[Start(i)] = StructDecl(Admin)

\* C3: for a line that is the trigger `using sc_r64 = sc_Rational32;`, blanks
\* around it or not, the fixed block is written, then the line itself
\* unchanged, then a newline.
RationalBlock ==
  pc = "done" =>
    LET out == Split(Written)
    IN  \A i \in 1..Len(lines) :
          lines[i] \in Padded(RATIONAL_DECL)
            => /\ Start(i) + K < Len(out)
               /\ SubSeq(out, Start(i), Start(i) + K - 1) = BLOCK_LINES
               /\ out[Start(i) + K] = lines[i]

\* a trigger line with blanks around it was processed
RationalBlockReached ==
  /\ pc = "done"
  /\ \E i \in 1..Len(lines) :
       /\ lines[i] = Text(<<"\t">>) \o RATIONAL_DECL \o Text(<<" ">>)
       /\ Split(Written)[Start(i) + K] = lines[i]

\* C4: the text written has N + K*r lines, N the lines read and r those the
\* Rational rule fired on.
LineCount ==
  pc = "done" =>
    Len(Split(Written)) = Len(lines) + K * Cardinality(Fired(lines))

\* C5: a line the Type-Id rule wrote matches neither trigger and is written
\* unchanged by every later run: the converted lines of the file are those it
\* held after the first run.
TypeIdSteady ==
  pc = "done" =>
    LET out == Split(Written)
    IN  /\ \A i \in 1..Len(lines) :
             IsStructDecl(lines[i])
               => /\ ~RATIONAL_LINE_RE(lines[i])
                  /\ ~POLY_MORPHISM_RE(lines[i])
                  /\ Start(i) <= Len(out)
                  /\ out[Start(i)] = lines[i]
        /\ Len(hist) >= 2
             => SelectSeq(out, IsStructDecl)
                  = SelectSeq(Split(Utf8Decode(hist[2])), IsStructDecl)

\* a second run met a line the first run had converted
TypeIdSteadyReached ==
  /\ pc = "done"
  /\ Len(hist) >= 2
  /\ \E i \in 1..Len(lines) :
       /\ lines[i] = StructDecl(Admin)
       /\ \E j \in 1..Len(Split(ReadText(hist[1]))) : IsTypeIdDecl(Split(ReadText(hist[1]))[j])
       /\ Split(Written)[Start(i)] = StructDecl(Admin)

\* C6: no line of the block matches a trigger, and after k runs on a file that
\* began with one trigger line and no block the file holds k blocks and one
\* trigger line.
BlockPerRun ==
  pc = "done" =>
    /\ \A j \in 1..K :
         ~RATIONAL_LINE_RE(BLOCK_LINES[j]) /\ ~POLY_MORPHISM_RE(BLOCK_LINES[j])
    /\ (Cardinality(Fired(Split(ReadText(hist[1])))) = 1 /\ BlockCount(Split(ReadText(hist[1]))) = 0)
         => /\ BlockCount(Split(Written)) = Len(hist)
            /\ Cardinality(Fired(Split(Written))) = 1

\* a third run ended on a file that began with one trigger line
BlockPerRunReached ==
  /\ pc = "done"
  /\ Len(hist) = 3
  /\ Cardinality(Fired(Split(ReadText(hist[1])))) = 1
  /\ BlockCount(Split(ReadText(hist[1]))) = 0
  /\ BlockCount(Split(Written)) = 3

\* C7: when main() has ended, normally or by an I/O error, the file holds the
\* text it held when main() began or the whole transformed text.
AllOrNothing ==
  pc \in {"done", "failed"} =>
    \/ file = hist[Len(hist)]
    \/ file = Transform(hist[Len(hist)])

\* C8: a line that holds a complete trigger declaration and then further
\* text is written unchanged, with no block before it.
WholeLineOnly ==
  pc = "done" =>
    LET out == Split(Written)
    IN  \A i \in 1..Len(lines) :
          HasTrailingText(lines[i])
            => (Start(i) <= Len(out) /\ out[Start(i)] = lines[i])

\* C9: the Rational rule fires only on the exact characters of the trigger: a
\* line that differs from it only in letter case is written unchanged, with
\* no block before it.
RationalExactCase ==
  pc = "done" =>
    LET out == Split(Written)
    IN  \A i \in 1..Len(lines) :
          (IsRationalAnyCase(lines[i]) /\ lines[i] \notin Padded(RATIONAL_DECL))
            => (Start(i) <= Len(out) /\ out[Start(i)] = lines[i])

\* C10: when no line matches a rule, the text written is the text read.
RoundTrip ==
  (pc = "done" /\ Fired(lines) = {}
     /\ \A i \in 1..Len(lines) : ~POLY_MORPHISM_RE(lines[i]))
    => Written = data

=============================================================================
